---- MODULE Spec2Model ----
(***************************************************************************)
(* A model of pelican/plugins/thumbnailer/thumbnailer.py.                  *)
(*                                                                         *)
(* Python strings are modelled as sequences of one-character strings, so   *)
(* that the path arithmetic (commonprefix, splitext, join, dirname,        *)
(* relpath, replace) and the parsing of a resize specification (the        *)
(* regular expression, int()) are computed character by character, the way *)
(* the library functions compute them.                                     *)
(***************************************************************************)
EXTENDS Integers, Sequences, FiniteSets, TLC

\* ------------------------------------------------------------------------
\* Strings (str) and os.path (posixpath)
\* ------------------------------------------------------------------------

sep == "/"

\* s[a:b] of Python, with 0 <= a, b <= len(s) (0-based, b exclusive).
Slice(s, a, b) == IF b <= a THEN << >> ELSE SubSeq(s, a + 1, b)

\* s[a:]
From(s, a) == Slice(s, a, Len(s))

\* s.startswith(p)
startswith(s, p) == Len(p) <= Len(s) /\ SubSeq(s, 1, Len(p)) = p

\* s.rfind(c) for a single character c: the 0-based index of the last c, or -1.
rfind(s, c) ==
  IF \E k \in 1..Len(s) : s[k] = c
  THEN (CHOOSE k \in 1..Len(s) : s[k] = c /\ \A m \in (k + 1)..Len(s) : s[m] # c) - 1
  ELSE -1

\* s.rstrip(c) for a single character c.
RECURSIVE rstrip(_, _)
rstrip(s, c) ==
  IF Len(s) > 0 /\ s[Len(s)] = c THEN rstrip(SubSeq(s, 1, Len(s) - 1), c) ELSE s

\* s.replace(old, new), old non-empty: every non-overlapping occurrence of
\* old, scanning from the left.
RECURSIVE replace(_, _, _)
replace(s, old, new) ==
  IF Len(s) = 0 THEN << >>
  ELSE IF startswith(s, old) THEN new \o replace(From(s, Len(old)), old, new)
  ELSE <<s[1]>> \o replace(From(s, 1), old, new)

\* os.path.commonprefix([a, b]): the longest common leading substring,
\* compared character by character (not path component by path component).
RECURSIVE commonprefix(_, _)
commonprefix(a, b) ==
  IF Len(a) = 0 \/ Len(b) = 0 \/ a[1] # b[1] THEN << >>
  ELSE <<a[1]>> \o commonprefix(From(a, 1), From(b, 1))

\* os.path.join(a, b)
join(a, b) ==
  IF startswith(b, <<sep>>) THEN b
  ELSE IF Len(a) = 0 \/ a[Len(a)] = sep THEN a \o b
  ELSE a \o <<sep>> \o b

join3(a, b, c) == join(join(a, b), c)

AllSep(s) == \A k \in 1..Len(s) : s[k] = sep

\* os.path.dirname(p)
dirname(p) ==
  LET i == rfind(p, sep) + 1
      head == Slice(p, 0, i)
  IN  IF Len(head) > 0 /\ ~AllSep(head) THEN rstrip(head, sep) ELSE head

\* os.path.basename(p)
basename(p) == From(p, rfind(p, sep) + 1)

\* os.path.splitext(p): <<root, ext>>.  The extension starts at the last dot
\* of the last path component, unless only dots precede it in the component.
splitext(p) ==
  LET sepIndex == rfind(p, sep)
      dotIndex == rfind(p, ".")
  IN  IF dotIndex > sepIndex
         /\ \E k \in (sepIndex + 1)..(dotIndex - 1) : p[k + 1] # "."
      THEN <<Slice(p, 0, dotIndex), From(p, dotIndex)>>
      ELSE <<p, << >> >>

\* The path components of p: p.split("/") without the empty ones and ".".
RECURSIVE components(_)
components(p) ==
  IF Len(p) = 0 THEN << >>
  ELSE LET k == IF \E m \in 1..Len(p) : p[m] = sep
                THEN (CHOOSE m \in 1..Len(p) :
                        p[m] = sep /\ \A q \in 1..(m - 1) : p[q] # sep) - 1
                ELSE Len(p)
           first == Slice(p, 0, k)
           rest == IF k < Len(p) THEN From(p, k + 1) ELSE << >>
       IN  (IF first = << >> \/ first = <<".">> THEN << >> ELSE <<first>>)
           \o components(rest)

RECURSIVE commonlen(_, _)
commonlen(a, b) ==
  IF Len(a) = 0 \/ Len(b) = 0 \/ a[1] # b[1] THEN 0
  ELSE 1 + commonlen(Tail(a), Tail(b))

RECURSIVE joinall(_)
joinall(cs) ==
  IF Len(cs) = 0 THEN << >>
  ELSE IF Len(cs) = 1 THEN cs[1]
  ELSE join(cs[1], joinall(Tail(cs)))

\* The last step of os.path.relpath: one ".." for each component of start
\* that is not shared, then the rest of the path.
relpath_from(start_list, path_list, k) ==
  joinall([m \in 1..(Len(start_list) - k) |-> <<".", ".">>]
          \o SubSeq(path_list, k + 1, Len(path_list)))

relpath_of(start_list, path_list) ==
  IF start_list = path_list THEN <<".">>
  ELSE relpath_from(start_list, path_list, commonlen(start_list, path_list))

\* os.path.relpath(p, start) for two paths relative to the same working
\* directory, neither holding a ".." component.
relpath(p, start) == relpath_of(components(start), components(p))

\* ------------------------------------------------------------------------
\* Resizer: the resize specification and the strategy it selects
\* ------------------------------------------------------------------------

Digits == {"1", "2"}

IsDigit(c) == c \in Digits

DigitValue(c) == IF c = "1" THEN 1 ELSE 2

\* The value of a non-empty string of digits, as int() reads it.
RECURSIVE DecimalValue(_)
DecimalValue(s) ==
  IF Len(s) = 0 THEN 0
  ELSE 10 * DecimalValue(SubSeq(s, 1, Len(s) - 1)) + DigitValue(s[Len(s)])

\* int(s): <<TRUE, value>>, or <<FALSE, 0>> where int() raises ValueError.
int(s) ==
  IF Len(s) > 0 /\ \A k \in 1..Len(s) : IsDigit(s[k])
  THEN <<TRUE, DecimalValue(s)>>
  ELSE <<FALSE, 0>>

\* The length of the longest run of digits of s that starts at 0-based k.
RECURSIVE DigitRun(_, _)
DigitRun(s, k) ==
  IF k < Len(s) /\ IsDigit(s[k + 1]) THEN 1 + DigitRun(s, k + 1) ELSE 0

\* One dimension token, (\d+|\?), matched at 0-based k: its length, or 0.
TokenAt(s, k) ==
  IF DigitRun(s, k) > 0 THEN DigitRun(s, k)
  ELSE IF k < Len(s) /\ s[k + 1] = "?" THEN 1
  ELSE 0

\* Whether REGEX matches at 0-based k.  A run of digits is followed by a
\* digit wherever it is cut short, so the first token is the whole run.
MatchAfter(s, k, a) ==
  /\ a > 0
  /\ k + a < Len(s)
  /\ s[k + a + 1] = "x"
  /\ TokenAt(s, k + a + 1) > 0

MatchAt(s, k) == MatchAfter(s, k, TokenAt(s, k))

\* The two groups of the match at 0-based k, whose first token is a long.
GroupsAt(s, k, a) ==
  <<Slice(s, k, k + a), Slice(s, k + a + 1, k + a + 1 + TokenAt(s, k + a + 1))>>

\* The leftmost position REGEX matches at.
FirstMatch(s) ==
  CHOOSE k \in 0..(Len(s) - 1) : MatchAt(s, k) /\ \A m \in 0..(k - 1) : ~MatchAt(s, m)

MatchGroups(s, k) == GroupsAt(s, k, TokenAt(s, k))

\* REGEX.search(spec): << >> for None, or <<group(1), group(2)>> of the
\* leftmost match.
REGEX_search(s) ==
  IF \E k \in 0..(Len(s) - 1) : MatchAt(s, k)
  THEN MatchGroups(s, FirstMatch(s))
  ELSE << >>

\* Image.open(in_path) of a decodable file.
Image_open(in_path, size) == [src |-> in_path, size |-> size, op |-> "open"]

_null_resize(w, h, image) == image

\* ImageOps.fit(image, (w, h)): scaled to cover and cropped to exactly (w, h).
_exact_resize(w, h, image) == [src |-> image.src, size |-> <<w, h>>, op |-> "fit"]

Max(a, b) == IF a >= b THEN a ELSE b

\* image.copy() and Image.thumbnail((w, h)): shrunk to fit inside (w, h),
\* the aspect ratio kept, never enlarged.
_aspect_resize(w, h, image) ==
  LET x0 == image.size[1]
      y0 == image.size[2]
      y1 == IF x0 > w THEN Max((y0 * w) \div x0, 1) ELSE y0
      x1 == IF x0 > w THEN w ELSE x0
      x2 == IF y1 > h THEN Max((x1 * h) \div y1, 1) ELSE x1
      y2 == IF y1 > h THEN h ELSE y1
  IN  [src |-> image.src, size |-> <<x2, y2>>, op |-> "thumbnail"]

Apply(strategy, w, h, image) ==
  CASE strategy = "_null_resize" -> _null_resize(w, h, image)
    [] strategy = "_exact_resize" -> _exact_resize(w, h, image)
    [] strategy = "_aspect_resize" -> _aspect_resize(w, h, image)

NoImage == [none |-> TRUE]

Raise(exc) ==
  [raised |-> exc, strategy |-> "none", targetw |-> 0, targeth |-> 0, image |-> NoImage]

Return(strategy, w, h, image) ==
  [raised |-> "none", strategy |-> strategy, targetw |-> w, targeth |-> h,
   image |-> Apply(strategy, w, h, image)]

\* Lines 57-60 of Resizer.resize: a specification without "x"; n is int(spec).
resize_square(n, image) ==
  IF n[1] THEN Return("_exact_resize", n[2], n[2], image) ELSE Raise("ValueError")

\* A slip in the last branch: the height is taken from the width token.
resize_tokens_square(tmpw, tmph, w, h, image) ==
  IF tmpw = <<"?">>
  THEN IF h[1]
       THEN Return("_aspect_resize", image.size[1], h[2], image)
       ELSE Raise("ValueError")
  ELSE IF tmph = <<"?">>
  THEN Return("_aspect_resize", w[2], image.size[2], image)
  ELSE Return("_exact_resize", w[2], w[2], image)

\* Lines 66-88 of Resizer.resize, for the tokens tmpw and tmph; w and h are
\* int(tmpw) and int(tmph), read only where the code calls int().  The
\* "?x?" test assigns the null strategy, and the test that follows it is an
\* `if`, not an `elif`: it runs too, and int("?") raises ValueError.
resize_tokens(tmpw, tmph, w, h, image) ==
  IF tmpw = <<"?">>
  THEN IF h[1]
       THEN Return("_aspect_resize", image.size[1], h[2], image)
       ELSE Raise("ValueError")
  ELSE IF tmph = <<"?">>
  THEN Return("_aspect_resize", w[2], image.size[2], image)
  ELSE Return("_exact_resize", w[2], h[2], image)

\* Lines 62-64 of Resizer.resize: group() of no match raises AttributeError.
resize_matches(matches, image) ==
  IF matches = << >> THEN Raise("AttributeError")
  ELSE resize_tokens(matches[1], matches[2], int(matches[1]), int(matches[2]), image)

\* Resizer.resize(image) of a Resizer whose _spec is spec.
resize(spec, image) ==
  IF \A k \in 1..Len(spec) : spec[k] # "x"
  THEN resize_square(int(spec), image)
  ELSE resize_matches(REGEX_search(spec), image)

\* Resizer.__init__: the three fields are stored; the spec is not parsed.
Resizer(name, spec, root) == [_name |-> name, _spec |-> spec, _root |-> root]

\* Lines 97-98 of get_thumbnail_name.
strip_sep(new_filename) ==
  IF startswith(new_filename, <<sep>>) THEN From(new_filename, 1) ELSE new_filename

\* Line 102 of get_thumbnail_name, for the result of splitext.
suffixed(parts, name) == parts[1] \o <<"_">> \o name \o parts[2]

\* Resizer.get_thumbnail_name(in_path)
get_thumbnail_name(r, in_path) ==
  suffixed(splitext(strip_sep(From(in_path, Len(commonprefix(in_path, r._root))))),
           r._name)

\* ------------------------------------------------------------------------
\* The file system, as far as the plugin reads and writes it
\* ------------------------------------------------------------------------

\* A directory and its ancestors: what os.makedirs(p) leaves in existence.
makedirs(p) ==
  LET cs == components(p)
  IN  {joinall(SubSeq(cs, 1, k)) : k \in 1..Len(cs)}

\* A target that is never found.
path_exists_never(p, files, directories) == FALSE

\* os.path.exists(p), of the output tree: files maps each file written so
\* far to its content, directories holds the directories created so far.
path_exists(p, files, directories) == p \in DOMAIN files \/ p \in directories

\* The size Image.open reports for a source image.
SourceSize == <<4, 2>>

\* How a call of resize_file_to ended: the output tree it leaves, its
\* target, and saved, skipped on IOError, or the exception it let through.
Ended(files, directories, filename, saved, ioerror, raised) ==
  [files |-> files, dirs |-> directories, filename |-> filename,
   saved |-> saved, ioerror |-> ioerror, raised |-> raised]

\* Lines 111-114 of resize_file_to: the target file.
target_filename(r, in_path, out_path, keep_filename) ==
  IF keep_filename
  THEN join(out_path, basename(in_path))
  ELSE join(out_path, get_thumbnail_name(r, in_path))

\* Lines 116-117 of resize_file_to: the directories after os.makedirs.
ensure_dir(out_dir, files, directories) ==
  IF ~path_exists(out_dir, files, directories)
  THEN directories \cup makedirs(out_dir)
  ELSE directories

\* Lines 121-122 of resize_file_to: thumbnail.save(filename), unless
\* Resizer.resize raised.
save(thumbnail, filename, files, directories) ==
  IF thumbnail.raised # "none"
  THEN Ended(files, directories, filename, FALSE, FALSE, thumbnail.raised)
  ELSE Ended([q \in DOMAIN files \cup {filename} |->
                IF q = filename THEN thumbnail.image ELSE files[q]],
             directories, filename, TRUE, FALSE, "none")

\* Lines 118-129 of resize_file_to.  Image.open raises IOError for the
\* sources in undecodable, and IOError is the one exception caught.
write_thumbnail(r, in_path, filename, files, directories, undecodable) ==
  IF path_exists(filename, files, directories)
  THEN Ended(files, directories, filename, FALSE, FALSE, "none")
  ELSE IF in_path \in undecodable
  THEN Ended(files, directories, filename, FALSE, TRUE, "none")
  ELSE save(resize(r._spec, Image_open(in_path, SourceSize)), filename, files, directories)

write_to(r, in_path, filename, files, directories, undecodable) ==
  write_thumbnail(r, in_path, filename, files,
                  ensure_dir(dirname(filename), files, directories), undecodable)

\* Resizer.resize_file_to(in_path, out_path, keep_filename) on the output
\* tree (files, directories).
resize_file_to(r, in_path, out_path, keep_filename, files, directories, undecodable) ==
  write_to(r, in_path, target_filename(r, in_path, out_path, keep_filename),
           files, directories, undecodable)

\* _image_path(pelican)
_image_path(st) == rstrip(join(st.PATH, st.IMAGE_PATH), sep)

\* Every source goes to <thumbnail_root>/<name>: THUMBNAIL_KEEP_TREE is not read.
get_out_path_flat(st, in_path, in_filename, name) ==
  LET base_out_path == join(st.OUTPUT_PATH, st.THUMBNAIL_DIR)
  IN  IF st.THUMBNAIL_KEEP_NAME THEN join(base_out_path, name) ELSE base_out_path

\* get_out_path(pelican, in_path, in_filename, name)
get_out_path(st, in_path, in_filename, name) ==
  LET base_out_path == join(st.OUTPUT_PATH, st.THUMBNAIL_DIR)
  IN  IF st.THUMBNAIL_KEEP_NAME
      THEN IF st.THUMBNAIL_KEEP_TREE
           THEN join3(base_out_path, name, dirname(relpath(in_filename, in_path)))
           ELSE join(base_out_path, name)
      ELSE base_out_path

\* is_included(name) of resize_thumbnails.  THUMBNAIL_INCLUDE_REGEX is unset
\* (empty) or a pattern of literal characters, which pattern.match finds at
\* the start of the name.
is_included(st, name) ==
  IF st.THUMBNAIL_INCLUDE_REGEX # << >>
  THEN startswith(name, st.THUMBNAIL_INCLUDE_REGEX)
  ELSE ~startswith(name, <<".">>)

\* The dirpath os.walk(top) reports for the directory d below top.
dirpath(top, d) == IF d = << >> THEN top ELSE join(top, d)

\* ------------------------------------------------------------------------
\* Gallery expansion
\* ------------------------------------------------------------------------

\* None, as a metadata value: no string, since a string holds characters.
PyNone == <<"None">>

Fields == {"{filename}", "{url}", "{thumbnail}"}

\* template.format(filename=..., url=..., thumbnail=...): the template is a
\* sequence of literal characters and replacement fields.
RECURSIVE format(_, _, _, _)
format(template, filename, url, thumbnail) ==
  IF Len(template) = 0 THEN << >>
  ELSE (CASE template[1] = "{filename}" -> filename
          [] template[1] = "{url}" -> url
          [] template[1] = "{thumbnail}" -> thumbnail
          [] OTHER -> <<template[1]>>)
       \o format(Tail(template), filename, url, thumbnail)

\* "\n".join(lines)
RECURSIVE join_lines(_)
join_lines(lines) ==
  IF Len(lines) = 0 THEN << >>
  ELSE IF Len(lines) = 1 THEN lines[1]
  ELSE lines[1] \o <<"\n">> \o join_lines(Tail(lines))

\* Whether the directory d (relative to the image root) is top or lies below it.
Under(d, top) == top = << >> \/ d = top \/ startswith(d, top \o <<sep>>)

STATIC == <<"/", "s", "t", "a", "t", "i", "c">>

\* The body of the loop of expand_gallery for one file of the walk.
gallery_line(st, resizer, base_path, dir, filename) ==
  LET url0 == From(replace(join(dirpath(base_path, dir), filename), base_path, << >>), 1)
      url == replace(join3(STATIC, st.IMAGE_PATH, url0), <<"\\">>, <<"/">>)
      thumbnail0 == get_thumbnail_name(resizer, filename)
      thumbnail == replace(join3(<<"/">>, st.THUMBNAIL_DIR, thumbnail0), <<"\\">>, <<"/">>)
  IN  format(st.GALLERY_TEMPLATE, filename, url, thumbnail)

\* The filter of the loop of expand_gallery, left out: every file is listed.
gallery_listed_all(filename) == TRUE

\* The filter of the loop of expand_gallery.
gallery_listed(filename) == ~startswith(filename, <<".">>)

RECURSIVE gallery_lines(_, _, _, _, _)
gallery_lines(st, resizer, base_path, gallery, entries) ==
  IF Len(entries) = 0 THEN << >>
  ELSE (IF Under(entries[1].dir, gallery) /\ gallery_listed(entries[1].name)
        THEN <<gallery_line(st, resizer, base_path, entries[1].dir, entries[1].name)>>
        ELSE << >>)
       \o gallery_lines(st, resizer, base_path, gallery, Tail(entries))

\* expand_gallery(generator, metadata): the metadata mapping it leaves.
\* entries is what os.walk lists below the image root, in its order; the
\* walk of <image root>/<gallery> lists the entries below that directory,
\* and nothing when there is no such directory.
expand_gallery(st, md, entries) ==
  IF "gallery" \notin DOMAIN md \/ md["gallery"] = PyNone THEN md
  ELSE LET base_path == _image_path(st)
           resizer == Resizer(st.GALLERY_THUMBNAIL, <<"?", "x", "?">>, base_path)
           lines == gallery_lines(st, resizer, base_path, md["gallery"], entries)
       IN  [k \in DOMAIN md \cup {"gallery_content"} |->
              IF k = "gallery_content" THEN join_lines(lines) ELSE md[k]]

\* ------------------------------------------------------------------------
\* State
\* ------------------------------------------------------------------------

VARIABLES
  spec_in,    \* the resize specification a Resizer is to be built from
  resizer,    \* the Resizer built, or NoResizer
  image,      \* the decoded source image handed to Resizer.resize
  outcome,    \* what Resizer.resize returned or raised, or NoOutcome
  naming,     \* calls of get_thumbnail_name: in_path, resizer name, result
  settings,   \* pelican.settings
  walk,       \* the files below the image root, in the order os.walk lists them
  undecodable,\* the source paths Image.open raises IOError for
  disk,       \* the output tree: file path -> image content
  dirs,       \* the output tree: the directories that exist
  resizers,   \* the Resizers resize_thumbnails built, in the order of the dict
  pc,         \* resize_thumbnails: "idle", "walking", "done", "aborted"
  i,          \* position of the loop over the files
  j,          \* position of the loop over the resizers
  run,        \* the number of the pass over the tree
  wrote,      \* the thumbnails saved by this pass
  skipped,    \* the pairs this pass skipped on IOError
  error,      \* the exception that ended this pass, or "none"
  before,     \* the output files as they were when this pass began
  metadata0,  \* the metadata mapping of an article, as the generator read it
  metadata,   \* the metadata mapping, as expand_gallery leaves it
  gpc         \* expand_gallery: "none" (no article), "pending", "expanded"

resizeVars == <<spec_in, resizer, image, outcome>>
nameVars == <<naming>>
inputVars == <<settings, walk, undecodable>>
batchVars == <<disk, dirs, resizers, pc, i, j, run, wrote, skipped, error, before>>
galleryVars == <<metadata0, metadata, gpc>>
vars == <<resizeVars, nameVars, inputVars, batchVars, galleryVars>>

NoResizer == [none |-> TRUE]
NoOutcome == [none |-> TRUE]

\* ------------------------------------------------------------------------
\* Bounds and inputs
\* ------------------------------------------------------------------------

\* The longest resize specification tried.
MaxSpecLen == 4

\* The largest dimension a claim about a numeric specification is read for.
MaxDim == 22

\* The most files a source tree holds.
MaxFiles == 3

\* The number of passes of resize_thumbnails over one source tree.
MaxRuns == 2

\* The longest file name (before its extension) and the longest resizer name
\* given to get_thumbnail_name on its own.
MaxNameLen == 3

\* All strings over the alphabet A of length lo..hi.
Strings(A, lo, hi) == UNION {[1..n -> A] : n \in lo..hi}

SpecAlphabet == Digits \cup {"?", "x", "z"}

SpecStrings == Strings(SpecAlphabet, 0, MaxSpecLen)

Images == {Image_open(<<"a">>, <<4, 2>>), Image_open(<<"a">>, <<1, 3>>)}

\* Source files, by directory below the image root and file name.
F(d, n) == [dir |-> d, name |-> n]

Universe ==
  { F(<< >>, <<"a", ".", "j">>),
    F(<<"g">>, <<"a", ".", "j">>),
    F(<<"h">>, <<"a", ".", "j">>),
    F(<<"g">>, <<"a", "_", "b", ".", "j">>),
    F(<<"g">>, <<".", "h", ".", "j">>),
    F(<<"g">>, <<"c", ".", "j">>) }

\* The files of a gallery with a subdirectory of its own.
GalleryUniverse ==
  { F(<< >>, <<"a", ".", "j">>),
    F(<<"g">>, <<"a", ".", "j">>),
    F(<<"g">>, <<".", "h", ".", "j">>),
    F(<<"g">>, <<"c", ".", "j">>),
    F(<<"g", "/", "s">>, <<"a", ".", "j">>),
    F(<<"h">>, <<"a", ".", "j">>) }

\* The files whose content may be no image.
MayBeCorrupt == {f \in Universe \cup GalleryUniverse : f.name = <<"c", ".", "j">>}

ResizerNames == {<<"n">>, <<"b", "_", "n">>}

\* The specs of the sizes of a batch pass: "1", "2x1", "1x?" and "?x?".
BatchSpecs == {<<"1">>, <<"2", "x", "1">>, <<"1", "x", "?">>, <<"?", "x", "?">>}

\* THUMBNAIL_SIZES, as the sequence of its items: one or two named sizes.
SizeConfigs(specs) ==
  LET items == ResizerNames \X specs
  IN  {<<a>> : a \in items}
      \cup UNION {{<<a, b>> : b \in {c \in items : c[1] # a[1]}} : a \in items}

Trees(U) == {t \in SUBSET U : Cardinality(t) <= MaxFiles}

\* The directory d and the directories above it.
DirsAbove(d) ==
  LET cs == components(d) IN {joinall(SubSeq(cs, 1, k)) : k \in 0..Len(cs)}

\* The orders in which os.walk (top-down) can list the files of a tree: a
\* directory's own files come before those of its subdirectories, and the
\* files below one directory are listed together.
ValidWalk(w) ==
  /\ \A a, b \in 1..Len(w) :
       a < b => ~(w[a].dir # w[b].dir /\ Under(w[a].dir, w[b].dir))
  /\ \A a, b, c \in 1..Len(w) :
       a < c /\ c < b =>
         \A d \in DirsAbove(w[a].dir) :
           Under(w[b].dir, d) => Under(w[c].dir, d)

Walks(t) ==
  {w \in [1..Cardinality(t) -> t] :
     (\A a, b \in 1..Cardinality(t) : a # b => w[a] # w[b]) /\ ValidWalk(w)}

\* The settings of a site: content in "c", pictures in "c/p", output in "o",
\* thumbnails in "o/t".
Settings(sizes, keep_name, keep_tree, include_regex, gallery_thumbnail) ==
  [PATH |-> <<"c">>, IMAGE_PATH |-> <<"p">>, OUTPUT_PATH |-> <<"o">>,
   THUMBNAIL_DIR |-> <<"t">>, THUMBNAIL_SIZES |-> sizes,
   THUMBNAIL_KEEP_NAME |-> keep_name, THUMBNAIL_KEEP_TREE |-> keep_tree,
   THUMBNAIL_INCLUDE_REGEX |-> include_regex,
   GALLERY_THUMBNAIL |-> gallery_thumbnail,
   GALLERY_TEMPLATE |-> <<"{url}", "|", "{filename}", "|", "{thumbnail}">>]

\* The source path of a file of the walk, as resize_thumbnails joins it.
InFilename(st, f) == join(dirpath(_image_path(st), f.dir), f.name)

\* ------------------------------------------------------------------------
\* Initial states
\* ------------------------------------------------------------------------

ResizeIdle ==
  /\ spec_in = << >>
  /\ resizer = NoResizer
  /\ image = NoImage
  /\ outcome = NoOutcome

NameIdle == naming = << >>

BatchStart ==
  /\ disk = << >>
  /\ dirs = {}
  /\ resizers = << >>
  /\ pc = "idle"
  /\ i = 1
  /\ j = 1
  /\ run = 1
  /\ wrote = {}
  /\ skipped = {}
  /\ error = "none"
  /\ before = << >>

GalleryIdle ==
  /\ metadata0 = << >>
  /\ metadata = << >>
  /\ gpc = "none"

NoInputs ==
  /\ settings = Settings(<< >>, FALSE, FALSE, << >>, << >>)
  /\ walk = << >>
  /\ undecodable = {}

\* A source tree, listed in some order, with some of its files undecodable.
TreeInit(U) ==
  \E t \in Trees(U) :
    /\ walk \in Walks(t)
    /\ \E st \in {settings} :
         undecodable \in SUBSET {InFilename(st, f) : f \in t \cap MayBeCorrupt}

\* The batch pass: any tree, any sizes, any naming policy.
Init ==
  /\ ResizeIdle /\ NameIdle /\ GalleryIdle /\ BatchStart
  /\ settings \in {Settings(sizes, kn, kt, re, <<"n">>) :
                     sizes \in SizeConfigs(BatchSpecs), kn \in BOOLEAN,
                     kt \in BOOLEAN, re \in {<< >>, <<"a">>}}
  /\ TreeInit(Universe)

\* ------------------------------------------------------------------------
\* resize_thumbnails
\* ------------------------------------------------------------------------

\* PIL was imported: the module's global `enabled`.
enabled == TRUE

\* The loop position after the pair (i, j) when the pass goes on.
Advance ==
  /\ IF j < Len(resizers)
     THEN i' = i /\ j' = j + 1
     ELSE i' = i + 1 /\ j' = 1
  /\ pc' = IF j >= Len(resizers) /\ i + 1 > Len(walk) THEN "done" ELSE "walking"

\* resize_thumbnails, up to its loop: the Resizers are built from
\* THUMBNAIL_SIZES, none of them parsed.  The host calls it on the
\* `finalized` signal, after the articles' contexts were generated.
StartPass ==
  /\ pc = "idle"
  /\ gpc # "pending"
  /\ IF ~enabled
     THEN pc' = "done" /\ UNCHANGED resizers
     ELSE /\ resizers' = [k \in 1..Len(settings.THUMBNAIL_SIZES) |->
                            Resizer(settings.THUMBNAIL_SIZES[k][1],
                                    settings.THUMBNAIL_SIZES[k][2],
                                    _image_path(settings))]
          /\ pc' = IF Len(walk) = 0 THEN "done" ELSE "walking"
  /\ UNCHANGED <<disk, dirs, i, j, run, wrote, skipped, error, before>>
  /\ UNCHANGED <<resizeVars, nameVars, inputVars, galleryVars>>

\* A file of the walk that is_included rejects: the loop goes to the next file.
SkipFile ==
  /\ pc = "walking"
  /\ ~is_included(settings, walk[i].name)
  /\ i' = i + 1
  /\ j' = 1
  /\ pc' = IF i + 1 > Len(walk) THEN "done" ELSE "walking"
  /\ UNCHANGED <<disk, dirs, resizers, run, wrote, skipped, error, before>>
  /\ UNCHANGED <<resizeVars, nameVars, inputVars, galleryVars>>

\* Lines 158-164 of resize_thumbnails, for the file f and the resizer r.
process(st, r, in_path, in_filename, files, directories, unreadable) ==
  resize_file_to(r, in_filename, get_out_path(st, in_path, in_filename, r._name),
                 st.THUMBNAIL_KEEP_NAME, files, directories, unreadable)

process_pair(st, r, f, files, directories, unreadable) ==
  process(st, r, _image_path(st), join(dirpath(_image_path(st), f.dir), f.name),
          files, directories, unreadable)

\* The state a call of resize_file_to leaves.  An exception that
\* resize_file_to does not catch ends resize_thumbnails.
After(res, pair) ==
  /\ disk' = res.files
  /\ dirs' = res.dirs
  /\ wrote' = IF res.saved THEN wrote \cup {pair} ELSE wrote
  /\ skipped' = IF res.ioerror THEN skipped \cup {pair} ELSE skipped
  /\ error' = res.raised
  /\ IF res.raised # "none"
     THEN pc' = "aborted" /\ UNCHANGED <<i, j>>
     ELSE Advance

AfterPair(res, f, name) ==
  After(res, [file |-> f, name |-> name, filename |-> res.filename])

\* One turn of the innermost loop: get_out_path and resize_file_to for the
\* file walk[i] and the resizer resizers[j].
ProcessPair ==
  /\ pc = "walking"
  /\ is_included(settings, walk[i].name)
  /\ AfterPair(process_pair(settings, resizers[j], walk[i], disk, dirs, undecodable),
               walk[i], resizers[j]._name)
  /\ UNCHANGED <<resizers, run, before>>
  /\ UNCHANGED <<resizeVars, nameVars, inputVars, galleryVars>>

\* The next build of the site: resize_thumbnails is called again on the
\* same source tree, with the same settings, over the output of the last.
Rerun ==
  /\ pc \in {"done", "aborted"}
  /\ run < MaxRuns
  /\ run' = run + 1
  /\ pc' = "idle"
  /\ i' = 1
  /\ j' = 1
  /\ resizers' = << >>
  /\ wrote' = {}
  /\ skipped' = {}
  /\ error' = "none"
  /\ before' = disk
  /\ UNCHANGED <<disk, dirs>>
  /\ UNCHANGED <<resizeVars, nameVars, inputVars, galleryVars>>

Next == StartPass \/ SkipFile \/ ProcessPair \/ Rerun

Spec == Init /\ [][Next]_vars

\* ------------------------------------------------------------------------
\* A Resizer on its own: built from a specification, then given an image
\* ------------------------------------------------------------------------

InitResize ==
  /\ NameIdle /\ GalleryIdle /\ BatchStart /\ NoInputs
  /\ spec_in \in SpecStrings
  /\ image \in Images
  /\ resizer = NoResizer
  /\ outcome = NoOutcome

\* Resizer(name, spec, root)
Construct ==
  /\ resizer = NoResizer
  /\ resizer' = Resizer(<<"n">>, spec_in, <<"c", "/", "p">>)
  /\ UNCHANGED <<spec_in, image, outcome>>
  /\ UNCHANGED <<nameVars, inputVars, batchVars, galleryVars>>

\* resizer.resize(image)
ResizeImage ==
  /\ resizer # NoResizer
  /\ outcome = NoOutcome
  /\ outcome' = resize(resizer._spec, image)
  /\ UNCHANGED <<spec_in, image, resizer>>
  /\ UNCHANGED <<nameVars, inputVars, batchVars, galleryVars>>

NextResize == Construct \/ ResizeImage

SpecResize == InitResize /\ [][NextResize]_vars

\* ------------------------------------------------------------------------
\* get_thumbnail_name on its own: two calls, for two (source, name) pairs
\* ------------------------------------------------------------------------

NameRoot == <<"c", "/", "p">>

\* Words of letters and underscores that begin and end with a letter.
NameWords ==
  {t \in Strings({"a", "b", "_"}, 1, MaxNameLen) : t[1] # "_" /\ t[Len(t)] # "_"}

\* Files under the image root, "<word>.j", and resizer names.
NameSources == {join(NameRoot, t \o <<".", "j">>) : t \in NameWords}

NameNames == NameWords

NameCall(p, n) == [in_path |-> p, name |-> n, out |-> PyNone]

InitName ==
  /\ ResizeIdle /\ GalleryIdle /\ BatchStart /\ NoInputs
  /\ naming \in {<<NameCall(p1, n1), NameCall(p2, n2)>> :
                   p1 \in NameSources, n1 \in NameNames,
                   p2 \in NameSources, n2 \in NameNames}

\* Resizer(name, "?x?", root).get_thumbnail_name(in_path), for the first
\* pair not named yet.
GetThumbnailName ==
  \E k \in 1..Len(naming) :
    /\ naming[k].out = PyNone
    /\ \A m \in 1..(k - 1) : naming[m].out # PyNone
    /\ naming' = [naming EXCEPT ![k].out =
                    get_thumbnail_name(
                      Resizer(naming[k].name, <<"?", "x", "?">>, NameRoot),
                      naming[k].in_path)]
    /\ UNCHANGED <<resizeVars, inputVars, batchVars, galleryVars>>

NextName == GetThumbnailName

SpecName == InitName /\ [][NextName]_vars

\* ------------------------------------------------------------------------
\* An article with a gallery, and then the batch pass
\* ------------------------------------------------------------------------

Title == <<"T">>

\* The metadata of an article: no gallery, gallery: None, a gallery that is
\* a directory of pictures ("g", "h"), and one that is no directory ("q").
MetadataInputs ==
  { [k \in {"title"} |-> Title],
    [k \in {"title", "gallery"} |-> IF k = "title" THEN Title ELSE PyNone],
    [k \in {"title", "gallery"} |-> IF k = "title" THEN Title ELSE <<"g">>],
    [k \in {"title", "gallery"} |-> IF k = "title" THEN Title ELSE <<"h">>],
    [k \in {"title", "gallery"} |-> IF k = "title" THEN Title ELSE <<"q">>] }

InitGallery ==
  /\ ResizeIdle /\ NameIdle /\ BatchStart
  /\ settings \in {Settings(sizes, kn, FALSE, << >>, gt) :
                     sizes \in SizeConfigs({<<"1">>}), kn \in BOOLEAN,
                     gt \in ResizerNames}
  /\ TreeInit(GalleryUniverse)
  /\ metadata0 \in MetadataInputs
  /\ metadata = metadata0
  /\ gpc = "pending"

\* expand_gallery(generator, metadata), on the article_generator_context signal.
ExpandGallery ==
  /\ gpc = "pending"
  /\ metadata' = expand_gallery(settings, metadata, walk)
  /\ gpc' = "expanded"
  /\ UNCHANGED metadata0
  /\ UNCHANGED <<resizeVars, nameVars, inputVars, batchVars>>

NextGallery == ExpandGallery \/ StartPass \/ SkipFile \/ ProcessPair \/ Rerun

SpecGallery == InitGallery /\ [][NextGallery]_vars

\* ------------------------------------------------------------------------
\* Properties
\* ------------------------------------------------------------------------

\* What Resizer.resize returned: the strategy chosen and its target.
Chose(o, strategy, w, h) ==
  /\ o.raised = "none"
  /\ o.strategy = strategy
  /\ o.targetw = w
  /\ o.targeth = h

DigitChar(d) ==
  CASE d = 0 -> "0" [] d = 1 -> "1" [] d = 2 -> "2" [] d = 3 -> "3" [] d = 4 -> "4"
    [] d = 5 -> "5" [] d = 6 -> "6" [] d = 7 -> "7" [] d = 8 -> "8" [] d = 9 -> "9"

\* str(n), the decimal numeral of a positive integer.
RECURSIVE Str(_)
Str(n) == IF n < 10 THEN <<DigitChar(n)>> ELSE Str(n \div 10) \o <<DigitChar(n % 10)>>

Numeral == [n \in 1..MaxDim |-> Str(n)]

\* C1: for the spec "?x?" and every source image, Resizer.resize selects
\* the Passthrough strategy and returns the source image itself, unmodified,
\* without raising.
C1_PassthroughReturnsSource ==
  (outcome # NoOutcome /\ spec_in = <<"?", "x", "?">>) =>
    /\ outcome.raised = "none"
    /\ outcome.strategy = "_null_resize"
    /\ outcome.image = image

\* C2: for a source of size (sw, sh) and positive integers N, W, H, the spec
\* "N" selects ExactCrop with target (N, N), "WxH" ExactCrop with target
\* (W, H), "Wx?" AspectFit with the box (W, sh), and "?xH" AspectFit with
\* the box (sw, H).
C2_Dispatch ==
  outcome # NoOutcome =>
    /\ \A n \in 1..MaxDim :
         spec_in = Numeral[n] => Chose(outcome, "_exact_resize", n, n)
    /\ \A w, h \in 1..MaxDim :
         spec_in = Numeral[w] \o <<"x">> \o Numeral[h]
           => Chose(outcome, "_exact_resize", w, h)
    /\ \A w \in 1..MaxDim :
         spec_in = Numeral[w] \o <<"x", "?">>
           => Chose(outcome, "_aspect_resize", w, image.size[2])
    /\ \A h \in 1..MaxDim :
         spec_in = <<"?", "x">> \o Numeral[h]
           => Chose(outcome, "_aspect_resize", image.size[1], h)

\* A resize with the spec "12x?" of an image 3 high chose AspectFit (12, 3).
C2_Witness ==
  /\ outcome # NoOutcome
  /\ spec_in = <<"1", "2", "x", "?">>
  /\ image.size = <<1, 3>>
  /\ Chose(outcome, "_aspect_resize", 12, 3)

AllDigits(t) == Len(t) > 0 /\ \A k \in 1..Len(t) : t[k] \in Digits

DimensionToken(t) == t = <<"?">> \/ AllDigits(t)

\* A resize spec as the grammar has it: a bare integer, or two tokens, each
\* digits or "?", separated by "x".
WellFormed(t) ==
  \/ AllDigits(t)
  \/ \E k \in 1..Len(t) :
       /\ t[k] = "x"
       /\ DimensionToken(SubSeq(t, 1, k - 1))
       /\ DimensionToken(SubSeq(t, k + 1, Len(t)))

\* C3: a malformed resize spec is rejected when the Resizer is built, before
\* any image is opened: no Resizer is ever built from one.
C3_MalformedRejectedAtBuild == ~WellFormed(spec_in) => resizer = NoResizer

\* C4: a pass after the first one saves no file and leaves every output file
\* as it was, and no pass saves to a file that exists: no target is saved
\* twice.
C4_SecondPassWritesNothing ==
  /\ run >= 2 => (wrote = {} /\ disk = before)
  /\ \A w1, w2 \in wrote : w1.filename = w2.filename => w1 = w2

\* The second pass is over, with thumbnails of the first pass on disk.
C4_Witness ==
  /\ run = 2
  /\ pc = "done"
  /\ DOMAIN disk # {}
  /\ \E k \in 1..Len(walk) : is_included(settings, walk[k].name)

\* C5: get_thumbnail_name gives two distinct pairs (source file, resizer
\* name), the files under one root, two distinct file names.
C5_NamesInjective ==
  (Len(naming) = 2 /\ naming[1].out # PyNone /\ naming[2].out # PyNone) =>
    (<<naming[1].in_path, naming[1].name>> # <<naming[2].in_path, naming[2].name>>
       => naming[1].out # naming[2].out)

ThumbnailRoot == <<"o", "/", "t">>

\* Whether the file at path lies in the directory d itself.
InDirectory(path, d) ==
  /\ startswith(path, d \o <<sep>>)
  /\ \A k \in (Len(d) + 2)..Len(path) : path[k] # sep

Nested(f) == f.dir # << >>

\* C6, as claimed: the thumbnail of a nested source is written into
\* <thumbnail_root> when keep_filename is false, <thumbnail_root>/n when
\* keep_filename is true and keep_tree false, and <thumbnail_root>/n/<the
\* source's directory below the image root> when both are true.
C6_TableAsClaimed ==
  \A w \in wrote :
    Nested(w.file) =>
      InDirectory(w.filename,
        IF ~settings.THUMBNAIL_KEEP_NAME THEN ThumbnailRoot
        ELSE IF ~settings.THUMBNAIL_KEEP_TREE THEN ThumbnailRoot \o <<sep>> \o w.name
        ELSE ThumbnailRoot \o <<sep>> \o w.name \o <<sep>> \o w.file.dir)

\* C6, amended: with keep_filename false the thumbnail of a nested source is
\* written into <thumbnail_root>/<the source's directory below the image
\* root>; the other two rows are as claimed.
C6_Table ==
  \A w \in wrote :
    Nested(w.file) =>
      InDirectory(w.filename,
        IF ~settings.THUMBNAIL_KEEP_NAME THEN ThumbnailRoot \o <<sep>> \o w.file.dir
        ELSE IF ~settings.THUMBNAIL_KEEP_TREE THEN ThumbnailRoot \o <<sep>> \o w.name
        ELSE ThumbnailRoot \o <<sep>> \o w.name \o <<sep>> \o w.file.dir)

\* The thumbnail of a nested source was written with keep_filename false.
C6_Witness ==
  \E w \in wrote : Nested(w.file) /\ ~settings.THUMBNAIL_KEEP_NAME

\* The target of the pair (f, r), as the pass computes it.
TargetOf(f, r) ==
  target_filename(r, InFilename(settings, f),
                  get_out_path(settings, _image_path(settings),
                               InFilename(settings, f), r._name),
                  settings.THUMBNAIL_KEEP_NAME)

Decodable(f) == InFilename(settings, f) \notin undecodable

\* C7: a decode failure never aborts the batch: a pass in which a source
\* could not be decoded ends normally, and with a file at the target of
\* every included pair whose source is decodable.
C7_DecodeFailureDoesNotAbort ==
  (pc \in {"done", "aborted"} /\ skipped # {}) =>
    /\ pc = "done"
    /\ \A k \in 1..Len(walk), m \in 1..Len(resizers) :
         (is_included(settings, walk[k].name) /\ Decodable(walk[k]))
           => TargetOf(walk[k], resizers[m]) \in DOMAIN disk

\* The included files of a walk, each with every resizer, in loop order.
RECURSIVE PairsOf(_, _)
PairsOf(w, rs) ==
  IF Len(w) = 0 THEN << >>
  ELSE (IF is_included(settings, w[1].name)
        THEN [m \in 1..Len(rs) |-> <<w[1], rs[m]>>]
        ELSE << >>)
       \o PairsOf(Tail(w), rs)

\* The output files a pass over the pairs leaves, from the tree (files,
\* directories).
RECURSIVE PassOver(_, _, _)
PassOver(pairs, files, directories) ==
  IF Len(pairs) = 0 THEN files
  ELSE LET res == process_pair(settings, pairs[1][2], pairs[1][1],
                               files, directories, undecodable)
       IN  IF res.raised # "none" THEN res.files
           ELSE PassOver(Tail(pairs), res.files, res.dirs)

Range(q) == {q[k] : k \in 1..Len(q)}

Orders(q) ==
  {o \in [1..Len(q) -> Range(q)] : \A a, b \in 1..Len(q) : a # b => o[a] # o[b]}

\* C8: from an empty output tree, the output files a pass leaves, and their
\* content, are the same for every order in which the walk can list the
\* files and the dict the sizes.
C8_OrderIndependent ==
  (run = 1 /\ pc = "done") =>
    \A w \in Walks(Range(walk)), rs \in Orders(resizers) :
      PassOver(PairsOf(w, rs), << >>, {}) = disk

\* s.split(c), for a single character c.
RECURSIVE Split(_, _)
Split(t, c) ==
  IF \A k \in 1..Len(t) : t[k] # c THEN <<t>>
  ELSE LET k == CHOOSE k \in 1..Len(t) : t[k] = c /\ \A m \in 1..(k - 1) : t[m] # c
       IN  <<SubSeq(t, 1, k - 1)>> \o Split(SubSeq(t, k + 1, Len(t)), c)

HasGallery(md) == "gallery" \in DOMAIN md /\ md["gallery"] # PyNone

InGallery(f) == f.dir = metadata0["gallery"] \/ startswith(f.dir, metadata0["gallery"] \o <<sep>>)

Listed(f) == InGallery(f) /\ f.name[1] # "."

\* The files of the gallery that are no dot-files, in walk order.
GalleryFiles == SelectSeq(walk, Listed)

\* The fragments of gallery_content, each split into url, filename, thumbnail.
Fragments(content) ==
  IF content = << >> THEN << >>
  ELSE [k \in 1..Len(Split(content, "\n")) |-> Split(Split(content, "\n")[k], "|")]

FragmentsMatch(frags, files) ==
  /\ Len(frags) = Len(files)
  /\ \A k \in 1..Len(frags) : Len(frags[k]) = 3 /\ frags[k][2] = files[k].name

\* C9: expand_gallery leaves the metadata as it was when "gallery" is absent
\* or None; otherwise it sets gallery_content to the newline-join of one
\* fragment for each file of the walk of <image_root>/<gallery> that is no
\* dot-file, in walk order (the empty string when there is no such
\* directory), and changes no other key.
C9_GalleryContent ==
  gpc = "expanded" =>
    IF ~HasGallery(metadata0) THEN metadata = metadata0
    ELSE /\ DOMAIN metadata = DOMAIN metadata0 \cup {"gallery_content"}
         /\ \A k \in DOMAIN metadata0 : metadata[k] = metadata0[k]
         /\ FragmentsMatch(Fragments(metadata["gallery_content"]), GalleryFiles)

\* A gallery with a dot-file and another file was expanded.
C9_Witness ==
  /\ gpc = "expanded"
  /\ HasGallery(metadata0)
  /\ Len(GalleryFiles) = 1
  /\ \E k \in 1..Len(walk) : InGallery(walk[k]) /\ walk[k].name[1] = "."

ThumbnailUrl(filename) ==
  <<"/">> \o settings.THUMBNAIL_DIR \o <<sep>> \o From(filename, Len(ThumbnailRoot) + 1)

LinksAgree(frags, files) ==
  \A k \in 1..Len(files) :
    \A w \in wrote :
      (w.file = files[k] /\ w.name = settings.GALLERY_THUMBNAIL)
        => frags[k][3] = ThumbnailUrl(w.filename)

\* C10: with keep_filename false and GALLERY_THUMBNAIL a configured size,
\* the thumbnail link rendered for a file of the gallery is "/" +
\* THUMBNAIL_DIR + "/" + the path, below the thumbnail root, of the file
\* the batch pass writes for that file and that size.
C10_GalleryLinksAgree ==
  (/\ gpc = "expanded"
   /\ HasGallery(metadata0)
   /\ ~settings.THUMBNAIL_KEEP_NAME
   /\ run = 1
   /\ pc = "done") =>
    LinksAgree(Fragments(metadata["gallery_content"]), GalleryFiles)

====
